---- MODULE Spec2Model ----
(***************************************************************************)
(* Blue Carbon MRV platform.                                               *)
(*                                                                         *)
(* Part I  : the on-chain registry, CarbonRegistry, together with the two  *)
(*           token contracts it drives, BlueCarbon (ERC20 credits) and     *)
(*           NFTCertificate (ERC721 certificates).  Every external call is *)
(*           one EVM transaction: it either commits all its writes or      *)
(*           reverts and leaves the storage of all three contracts as it   *)
(*           was.  Specification: SpecRegistry.                            *)
(* Part II : the Express server (routes.ts over DatabaseStorage).  Every   *)
(*           handler is an async function; each awaited storage call is    *)
(*           one atomic database statement and other requests may run      *)
(*           between two awaits.  Specification: SpecServer.               *)
(***************************************************************************)
EXTENDS Integers, Sequences, FiniteSets, TLC

(***************************************************************************)
(* Bounds of the model                                                     *)
(***************************************************************************)
MaxCredits == 1
\* rejectProject can be repeated on a project that was locked and unlocked:
\* the model stops rejecting once totalRejectedProjects has reached this
MaxRejections == 2
\* the server accepts requests while fewer than MaxProjects projects and fewer
\* than MaxAuditLogs audit entries are stored or about to be stored
MaxProjects == 2
MaxAuditLogs == 3

\* BlueCarbon: the base units (beyond whole tokens) retired in all, and held by
\* one account
MaxUnits == 2

\* Advisory services: rows of field_data, ai_verification_jobs, gis_snapshots
MaxFieldData == 1
MaxJobs == 2
MaxSnapshots == 1

(***************************************************************************)
(* Inputs                                                                  *)
(***************************************************************************)
ZeroAddress == "0x0"
Deployer == "owner"
RegistryAddr == "registry"
\* "ngoContract" is a contract account without onERC721Received
Addresses == {"owner", "ngo", "ngoContract"}
ERC721Receivers == {"owner", "ngo"}
\* the accounts that submit projects, the accounts that call the registry's
\* verifier and owner functions ("ngo" is never authorized)
Submitters == {"ngo"}
Callers == {"owner", "ngo"}
ProjectIds == {"P1", "P12"}
Latitudes == {"10.0", "10.00"}
Longitudes == {"20.0"}
IpfsHashes == {"h", "2h"}
Areas == {0, 5}
CreditAmounts == 0..MaxCredits
\* block.timestamp
Timestamps == {1}

\* Server inputs
UserIds == {"owner", "ngo"}
RequestedRole == [owner |-> "admin", ngo |-> "ngo"]
ServerLongitudes == {"20.0", "21.0"}
Slots == {"r1", "r2"}
\* a field that is absent from a request body, a column that is NULL
Undefined == "undefined"
Null == "null"
\* carbonCredits in a request body: absent, or one number
CreditFields == {<<>>, <<0>>, <<0 - 1>>, <<1>>}

VARIABLES
  \* Server: the users, projects and audit_logs tables and the requests that
  \* are being handled
  users, projectRows, auditLogs, requests,
  \* Server: the field_data, ai_verification_jobs and gis_snapshots tables and
  \* the advisory call that is being handled
  fieldData, aiVerificationJobs, gisSnapshots, advice,
  \* CarbonRegistry
  projects, usedLocationHashes, usedDataHashes, submitterProjects,
  authorizedVerifiers, totalRegisteredProjects, totalVerifiedProjects,
  totalRejectedProjects,
  \* BlueCarbon
  adminRole, verifiedProjects, projectCredits, totalProjectsVerified,
  totalCreditsIssued, totalCreditsRetired, balanceOf, totalSupply,
  \* NFTCertificate
  nftOwner, tokenIdCounter, projectToTokenId, tokenToProject, projectCertified,
  \* logs of the chain: events emitted by committed transactions, the
  \* evidence hash each committed registration carried, the last transaction
  creditEvents, certificateEvents, registeredEvidence, lastCall

registryVars == <<projects, usedLocationHashes, usedDataHashes, submitterProjects,
                  authorizedVerifiers, totalRegisteredProjects,
                  totalVerifiedProjects, totalRejectedProjects>>
blueCarbonVars == <<adminRole, verifiedProjects, projectCredits,
                    totalProjectsVerified, totalCreditsIssued, totalCreditsRetired,
                    balanceOf, totalSupply>>
nftVars == <<nftOwner, tokenIdCounter, projectToTokenId, tokenToProject,
             projectCertified>>
logVars == <<creditEvents, certificateEvents, registeredEvidence>>
chainVars == <<registryVars, blueCarbonVars, nftVars, logVars>>
serverVars == <<users, projectRows, auditLogs, requests>>
advisorVars == <<fieldData, aiVerificationJobs, gisSnapshots, advice>>

(***************************************************************************)
(* Token amounts.  A uint256 amount of BlueCarbon is held as                *)
(* tokens * 10**decimals() + units: decimals() is 18, the amounts of base   *)
(* units that occur stay far below 10**18 in absolute value, so two amounts *)
(* are equal when both parts are, and are ordered by tokens first.  An      *)
(* operation that would overflow or underflow a uint256 reverts (Solidity   *)
(* 0.8) and is refused by the requires that come before it.                 *)
(***************************************************************************)
Amount(tokens, units) == [tokens |-> tokens, units |-> units]

Nothing == Amount(0, 0)

Plus(a, b) == Amount(a.tokens + b.tokens, a.units + b.units)

Minus(a, b) == Amount(a.tokens - b.tokens, a.units - b.units)

\* a >= b
AtLeast(a, b) == a.tokens > b.tokens \/ (a.tokens = b.tokens /\ a.units >= b.units)

\* creditsAmount * 10**decimals()
MintAmount(creditsAmount) == Amount(creditsAmount, 0)

(***************************************************************************)
(* CarbonRegistry: data                                                    *)
(***************************************************************************)
ProjectStatus == {"Pending", "Verified", "Rejected", "Locked"}

\* keccak256(abi.encodePacked(latitude, longitude, areaHectares)): the two
\* strings are packed without length prefixes, the uint256 has fixed width;
\* keccak256 is taken as injective on the packed bytes
LocationHash(latitude, longitude, areaHectares) ==
  <<latitude \o longitude, areaHectares>>

\* keccak256(abi.encodePacked(projectId, ipfsDataHash, msg.sender))
DataHash(projectId, ipfsDataHash, sender) ==
  <<projectId \o ipfsDataHash, sender>>

NoHash == <<>>

\* amounts given to retireCredits, burn and transfer: nothing, one base unit,
\* one whole token
TokenAmounts == {Nothing, Amount(0, 1), Amount(1, 0)}

\* the value a mapping(string => RegisteredProject) holds for an unused key
EmptyProject ==
  [projectId |-> "", submitter |-> ZeroAddress, areaHectares |-> 0,
   locationHash |-> NoHash, dataHash |-> NoHash, status |-> "Pending",
   verificationTime |-> 0, verifier |-> ZeroAddress, carbonCredits |-> 0,
   nftTokenId |-> 0, nftMinted |-> FALSE]

\* modifier projectExists
projectExists(projectId) ==
  projectId \in ProjectIds /\ projects[projectId].projectId # ""

\* the trace of the last transaction: the function called, the project it
\* names, "ok" or the revert message, and for lockProject / unlockProject the
\* status the project had before it was locked
NoStatus == "-"
Receipt(op, projectId, result, prev) ==
  [op |-> op, projectId |-> projectId, result |-> result, prevStatus |-> prev]


(***************************************************************************)
(* CarbonRegistry.registerProject                                          *)
(***************************************************************************)
registerProjectCheckNoLocation(sender, projectId, areaHectares, latitude, longitude, ipfsDataHash) ==
  IF projectId = "" THEN "CarbonRegistry: Empty project ID"
  ELSE IF ~(areaHectares > 0) THEN "CarbonRegistry: Area must be greater than 0"
  ELSE IF projects[projectId].projectId # "" THEN "CarbonRegistry: Project ID already exists"
  ELSE IF DataHash(projectId, ipfsDataHash, sender) \in usedDataHashes
    THEN "CarbonRegistry: Data already submitted"
  ELSE "ok"

registerProjectCheckNoIdCheck(sender, projectId, areaHectares, latitude, longitude, ipfsDataHash) ==
  IF projectId = "" THEN "CarbonRegistry: Empty project ID"
  ELSE IF ~(areaHectares > 0) THEN "CarbonRegistry: Area must be greater than 0"
  ELSE IF LocationHash(latitude, longitude, areaHectares) \in usedLocationHashes
    THEN "CarbonRegistry: Location already registered"
  ELSE IF DataHash(projectId, ipfsDataHash, sender) \in usedDataHashes
    THEN "CarbonRegistry: Data already submitted"
  ELSE "ok"

\* the require statements of registerProject in source order: the message of
\* the first that fails, "ok" when none does
registerProjectCheck(sender, projectId, areaHectares, latitude, longitude, ipfsDataHash) ==
  IF projectId = "" THEN "CarbonRegistry: Empty project ID"
  ELSE IF ~(areaHectares > 0) THEN "CarbonRegistry: Area must be greater than 0"
  ELSE IF projects[projectId].projectId # "" THEN "CarbonRegistry: Project ID already exists"
  ELSE IF LocationHash(latitude, longitude, areaHectares) \in usedLocationHashes
    THEN "CarbonRegistry: Location already registered"
  ELSE IF DataHash(projectId, ipfsDataHash, sender) \in usedDataHashes
    THEN "CarbonRegistry: Data already submitted"
  ELSE "ok"

\* the struct written to projects[projectId]
NewProject(sender, projectId, areaHectares, latitude, longitude, ipfsDataHash) ==
  [projectId |-> projectId, submitter |-> sender, areaHectares |-> areaHectares,
   locationHash |-> LocationHash(latitude, longitude, areaHectares),
   dataHash |-> DataHash(projectId, ipfsDataHash, sender),
   status |-> "Pending", verificationTime |-> 0, verifier |-> ZeroAddress,
   carbonCredits |-> 0, nftTokenId |-> 0, nftMinted |-> FALSE]

registerProject(sender, projectId, areaHectares, latitude, longitude, ipfsDataHash) ==
  LET result == registerProjectCheck(sender, projectId, areaHectares, latitude,
                                     longitude, ipfsDataHash)
      hash == LocationHash(latitude, longitude, areaHectares)
  IN /\ lastCall' = Receipt("registerProject", projectId, result, NoStatus)
     /\ IF result = "ok"
        THEN /\ projects' = [projects EXCEPT ![projectId] =
                   NewProject(sender, projectId, areaHectares, latitude,
                              longitude, ipfsDataHash)]
             /\ usedLocationHashes' = usedLocationHashes \cup {hash}
             /\ usedDataHashes' = usedDataHashes
                                    \cup {DataHash(projectId, ipfsDataHash, sender)}
             /\ submitterProjects' = [submitterProjects EXCEPT ![sender] =
                                        Append(@, projectId)]
             /\ totalRegisteredProjects' = totalRegisteredProjects + 1
             /\ registeredEvidence' = [registeredEvidence EXCEPT ![projectId] =
                                         ipfsDataHash]
             /\ UNCHANGED <<authorizedVerifiers, totalVerifiedProjects,
                            totalRejectedProjects, blueCarbonVars, nftVars,
                            creditEvents, certificateEvents>>
        ELSE UNCHANGED chainVars

(***************************************************************************)
(* BlueCarbon.verifyProjectAndMint and NFTCertificate.mintCertificate, as  *)
(* called from the registry (msg.sender is the registry)                   *)
(***************************************************************************)
NotYetIssuedUnchecked(issued, projectId) == TRUE

\* require(!verifiedProjects[projectId]) in BlueCarbon and
\* require(!projectCertified[projectId]) in NFTCertificate
NotYetIssued(issued, projectId) == ~issued[projectId]

blueCarbonMintCheck(caller, projectId, ngoAddress, creditsAmount) ==
  IF caller \notin adminRole THEN "BlueCarbon: caller is not an admin"
  ELSE IF ~NotYetIssued(verifiedProjects, projectId)
    THEN "BlueCarbon: project already verified"
  ELSE IF ~(creditsAmount > 0) THEN "BlueCarbon: credits amount must be greater than 0"
  ELSE IF ngoAddress = ZeroAddress THEN "BlueCarbon: invalid NGO address"
  ELSE "ok"

mintCertificateCheck(caller, projectId, areaHectares, beneficiary) ==
  IF caller # nftOwner THEN "Ownable: caller is not the owner"
  ELSE IF ~NotYetIssued(projectCertified, projectId) THEN "Project already certified"
  ELSE IF beneficiary = ZeroAddress THEN "Invalid beneficiary address"
  ELSE IF ~(areaHectares > 0) THEN "Area must be greater than 0"
  \* _safeMint reverts for a contract that does not accept ERC721 tokens
  ELSE IF beneficiary \notin ERC721Receivers THEN "ERC721: transfer to non ERC721Receiver"
  ELSE "ok"

(***************************************************************************)
(* CarbonRegistry.verifyProjectAndMint                                     *)
(***************************************************************************)
verifyProjectAndMintCheckNoStatus(sender, projectId, carbonCredits) ==
  IF sender \notin authorizedVerifiers THEN "CarbonRegistry: Not an authorized verifier"
  ELSE IF ~projectExists(projectId) THEN "CarbonRegistry: Project does not exist"
  ELSE IF ~(carbonCredits > 0)
    THEN "CarbonRegistry: Carbon credits must be greater than 0"
  ELSE LET fungible == blueCarbonMintCheck(RegistryAddr, projectId,
                         projects[projectId].submitter, carbonCredits)
       IN IF fungible # "ok" THEN fungible
          ELSE mintCertificateCheck(RegistryAddr, projectId,
                 projects[projectId].areaHectares, projects[projectId].submitter)

verifyProjectAndMintCheckCertificateFirst(sender, projectId, carbonCredits) ==
  IF sender \notin authorizedVerifiers THEN "CarbonRegistry: Not an authorized verifier"
  ELSE IF ~projectExists(projectId) THEN "CarbonRegistry: Project does not exist"
  ELSE IF projects[projectId].status # "Pending"
    THEN "CarbonRegistry: Project not pending verification"
  ELSE IF ~(carbonCredits > 0)
    THEN "CarbonRegistry: Carbon credits must be greater than 0"
  ELSE LET certificate == mintCertificateCheck(RegistryAddr, projectId,
                 projects[projectId].areaHectares, projects[projectId].submitter)
       IN IF certificate # "ok" THEN certificate
          ELSE blueCarbonMintCheck(RegistryAddr, projectId,
                         projects[projectId].submitter, carbonCredits)

\* modifiers and requires of the registry, then the two token calls in the
\* order they are made; a revert inside a token call reverts the transaction
verifyProjectAndMintCheck(sender, projectId, carbonCredits) ==
  IF sender \notin authorizedVerifiers THEN "CarbonRegistry: Not an authorized verifier"
  ELSE IF ~projectExists(projectId) THEN "CarbonRegistry: Project does not exist"
  ELSE IF projects[projectId].status # "Pending"
    THEN "CarbonRegistry: Project not pending verification"
  ELSE IF ~(carbonCredits > 0)
    THEN "CarbonRegistry: Carbon credits must be greater than 0"
  ELSE LET fungible == blueCarbonMintCheck(RegistryAddr, projectId,
                         projects[projectId].submitter, carbonCredits)
       IN IF fungible # "ok" THEN fungible
          ELSE mintCertificateCheck(RegistryAddr, projectId,
                 projects[projectId].areaHectares, projects[projectId].submitter)

MarkVerifiedNoCredits(project, sender, carbonCredits, now) ==
  [project EXCEPT !.status = "Verified", !.verificationTime = now,
                  !.verifier = sender]

\* lines 176-179: the status update made before the token calls
MarkVerified(project, sender, carbonCredits, now) ==
  [project EXCEPT !.status = "Verified", !.verificationTime = now,
                  !.verifier = sender, !.carbonCredits = carbonCredits]

RecordCertificateNoFlag(project, nftTokenId) ==
  [project EXCEPT !.nftTokenId = nftTokenId]

\* lines 195-196: the certificate recorded after the token calls
RecordCertificate(project, nftTokenId) ==
  [project EXCEPT !.nftTokenId = nftTokenId, !.nftMinted = TRUE]

verifyProjectAndMint(sender, projectId, carbonCredits, now) ==
  LET result == verifyProjectAndMintCheck(sender, projectId, carbonCredits)
  IN /\ lastCall' = Receipt("verifyProjectAndMint", projectId, result, NoStatus)
     /\ IF result = "ok"
        THEN LET project == projects[projectId]
                 tokenId == tokenIdCounter
             IN \* CarbonRegistry
                /\ projects' = [projects EXCEPT ![projectId] =
                     RecordCertificate(
                       MarkVerified(project, sender, carbonCredits, now), tokenId)]
                /\ totalVerifiedProjects' = totalVerifiedProjects + 1
                \* BlueCarbon.verifyProjectAndMint
                /\ verifiedProjects' = [verifiedProjects EXCEPT ![projectId] = TRUE]
                /\ projectCredits' = [projectCredits EXCEPT ![projectId] = carbonCredits]
                /\ totalProjectsVerified' = totalProjectsVerified + 1
                /\ totalCreditsIssued' = totalCreditsIssued + carbonCredits
                /\ balanceOf' = [balanceOf EXCEPT ![project.submitter] =
                                   Plus(@, MintAmount(carbonCredits))]
                /\ totalSupply' = Plus(totalSupply, MintAmount(carbonCredits))
                /\ creditEvents' = [creditEvents EXCEPT ![projectId] = @ + 1]
                \* NFTCertificate.mintCertificate
                /\ tokenIdCounter' = tokenIdCounter + 1
                /\ tokenToProject' = tokenToProject @@ (tokenId :>
                     [projectId |-> projectId, areaHectares |-> project.areaHectares,
                      carbonCredits |-> carbonCredits,
                      beneficiary |-> project.submitter, verified |-> TRUE])
                /\ projectToTokenId' = [projectToTokenId EXCEPT ![projectId] = tokenId]
                /\ projectCertified' = [projectCertified EXCEPT ![projectId] = TRUE]
                /\ certificateEvents' = [certificateEvents EXCEPT ![projectId] = @ + 1]
                /\ UNCHANGED <<usedLocationHashes, usedDataHashes, submitterProjects,
                               authorizedVerifiers, totalRegisteredProjects,
                               totalRejectedProjects, adminRole, totalCreditsRetired,
                               nftOwner, registeredEvidence>>
        ELSE UNCHANGED chainVars

(***************************************************************************)
(* CarbonRegistry.rejectProject, lockProject, unlockProject                *)
(***************************************************************************)
rejectProjectCheck(sender, projectId) ==
  IF sender \notin authorizedVerifiers THEN "CarbonRegistry: Not an authorized verifier"
  ELSE IF ~projectExists(projectId) THEN "CarbonRegistry: Project does not exist"
  ELSE IF projects[projectId].status # "Pending"
    THEN "CarbonRegistry: Project not pending verification"
  ELSE "ok"

rejectProjectReleasing(sender, projectId, now) ==
  LET result == rejectProjectCheck(sender, projectId)
  IN /\ lastCall' = Receipt("rejectProject", projectId, result, NoStatus)
     /\ IF result = "ok"
        THEN /\ projects' = [projects EXCEPT ![projectId] =
                   [@ EXCEPT !.status = "Rejected", !.verificationTime = now,
                             !.verifier = sender]]
             /\ totalRejectedProjects' = totalRejectedProjects + 1
             /\ usedLocationHashes' =
                  usedLocationHashes \ {projects[projectId].locationHash}
             /\ UNCHANGED <<usedDataHashes, submitterProjects,
                            authorizedVerifiers, totalRegisteredProjects,
                            totalVerifiedProjects, blueCarbonVars, nftVars, logVars>>
        ELSE UNCHANGED chainVars

rejectProject(sender, projectId, now) ==
  LET result == rejectProjectCheck(sender, projectId)
  IN /\ lastCall' = Receipt("rejectProject", projectId, result, NoStatus)
     /\ IF result = "ok"
        THEN /\ projects' = [projects EXCEPT ![projectId] =
                   [@ EXCEPT !.status = "Rejected", !.verificationTime = now,
                             !.verifier = sender]]
             /\ totalRejectedProjects' = totalRejectedProjects + 1
             /\ UNCHANGED <<usedLocationHashes, usedDataHashes, submitterProjects,
                            authorizedVerifiers, totalRegisteredProjects,
                            totalVerifiedProjects, blueCarbonVars, nftVars, logVars>>
        ELSE UNCHANGED chainVars

\* modifier onlyOwner (the registry is owned by its deployer), projectExists
onlyOwnerCheck(sender, projectId) ==
  IF sender # Deployer THEN "Ownable: caller is not the owner"
  ELSE IF ~projectExists(projectId) THEN "CarbonRegistry: Project does not exist"
  ELSE "ok"

lockProject(sender, projectId) ==
  LET result == onlyOwnerCheck(sender, projectId)
  IN /\ lastCall' = Receipt("lockProject", projectId, result,
                            IF result = "ok" THEN projects[projectId].status
                            ELSE NoStatus)
     /\ IF result = "ok"
        THEN /\ projects' = [projects EXCEPT ![projectId].status = "Locked"]
             /\ UNCHANGED <<usedLocationHashes, usedDataHashes, submitterProjects,
                            authorizedVerifiers, totalRegisteredProjects,
                            totalVerifiedProjects, totalRejectedProjects,
                            blueCarbonVars, nftVars, logVars>>
        ELSE UNCHANGED chainVars

\* the status unlockProject writes
UnlockedStatus(project) == "Pending"

unlockProjectCheck(sender, projectId) ==
  IF onlyOwnerCheck(sender, projectId) # "ok" THEN onlyOwnerCheck(sender, projectId)
  ELSE IF projects[projectId].status # "Locked" THEN "CarbonRegistry: Project not locked"
  ELSE "ok"

unlockProject(sender, projectId) ==
  LET result == unlockProjectCheck(sender, projectId)
  IN /\ lastCall' = Receipt("unlockProject", projectId, result,
                            IF result = "ok" /\ lastCall.op = "lockProject"
                                 /\ lastCall.result = "ok"
                                 /\ lastCall.projectId = projectId
                            THEN lastCall.prevStatus ELSE NoStatus)
     /\ IF result = "ok"
        THEN /\ projects' = [projects EXCEPT ![projectId].status =
                               UnlockedStatus(projects[projectId])]
             /\ UNCHANGED <<usedLocationHashes, usedDataHashes, submitterProjects,
                            authorizedVerifiers, totalRegisteredProjects,
                            totalVerifiedProjects, totalRejectedProjects,
                            blueCarbonVars, nftVars, logVars>>
        ELSE UNCHANGED chainVars

(***************************************************************************)
(* Administration: the registry's rights on the two token contracts       *)
(***************************************************************************)
\* BlueCarbon.grantAdminRole
grantAdminRole(sender, admin) ==
  LET result == IF sender \notin adminRole THEN "BlueCarbon: caller is not an admin"
                ELSE "ok"
  IN /\ lastCall' = Receipt("grantAdminRole", "", result, NoStatus)
     /\ adminRole' = IF result = "ok" THEN adminRole \cup {admin} ELSE adminRole
     /\ UNCHANGED <<registryVars, verifiedProjects, projectCredits,
                    totalProjectsVerified, totalCreditsIssued, totalCreditsRetired,
                    balanceOf, totalSupply, nftVars, logVars>>

\* Ownable.transferOwnership of NFTCertificate
transferOwnership(sender, newOwner) ==
  LET result == IF sender # nftOwner THEN "Ownable: caller is not the owner"
                ELSE IF newOwner = ZeroAddress
                  THEN "Ownable: new owner is the zero address"
                ELSE "ok"
  IN /\ lastCall' = Receipt("transferOwnership", "", result, NoStatus)
     /\ nftOwner' = IF result = "ok" THEN newOwner ELSE nftOwner
     /\ UNCHANGED <<registryVars, blueCarbonVars, tokenIdCounter, projectToTokenId,
                    tokenToProject, projectCertified, logVars>>

\* NFTCertificate.updateCarbonCredits
updateCarbonCredits(sender, tokenId, newCarbonCredits) ==
  LET result == IF sender # nftOwner THEN "Ownable: caller is not the owner"
                ELSE IF tokenId \notin DOMAIN tokenToProject
                  THEN "Certificate does not exist"
                ELSE "ok"
  IN /\ lastCall' = Receipt("updateCarbonCredits", "", result, NoStatus)
     /\ tokenToProject' =
          IF result = "ok"
          THEN [tokenToProject EXCEPT ![tokenId].carbonCredits = newCarbonCredits]
          ELSE tokenToProject
     /\ UNCHANGED <<registryVars, blueCarbonVars, nftOwner, tokenIdCounter,
                    projectToTokenId, projectCertified, logVars>>

(***************************************************************************)
(* The registry and its tokens as a state machine                          *)
(***************************************************************************)
\* the three contracts are deployed by the same account
InitRegistry ==
  /\ projects = [p \in ProjectIds |-> EmptyProject]
  /\ usedLocationHashes = {}
  /\ usedDataHashes = {}
  /\ submitterProjects = [a \in Addresses |-> <<>>]
  /\ authorizedVerifiers = {Deployer}
  /\ totalRegisteredProjects = 0
  /\ totalVerifiedProjects = 0
  /\ totalRejectedProjects = 0
  /\ adminRole = {Deployer}
  /\ verifiedProjects = [p \in ProjectIds |-> FALSE]
  /\ projectCredits = [p \in ProjectIds |-> 0]
  /\ totalProjectsVerified = 0
  /\ totalCreditsIssued = 0
  /\ totalCreditsRetired = Nothing
  /\ balanceOf = [a \in Addresses |-> Nothing]
  /\ totalSupply = Nothing
  /\ nftOwner = Deployer
  /\ tokenIdCounter = 0
  /\ projectToTokenId = [p \in ProjectIds |-> 0]
  /\ tokenToProject = <<>>
  /\ projectCertified = [p \in ProjectIds |-> FALSE]
  /\ creditEvents = [p \in ProjectIds |-> 0]
  /\ certificateEvents = [p \in ProjectIds |-> 0]
  /\ registeredEvidence = [p \in ProjectIds |-> ""]
  /\ lastCall = Receipt("constructor", "", "ok", NoStatus)

RegisterProject ==
  /\ UNCHANGED <<serverVars, advisorVars>>
  /\ \E sender \in Submitters, projectId \in ProjectIds \cup {""}, areaHectares \in Areas,
        latitude \in Latitudes, longitude \in Longitudes, ipfsDataHash \in IpfsHashes :
       registerProject(sender, projectId, areaHectares, latitude, longitude, ipfsDataHash)

VerifyProjectAndMint ==
  /\ UNCHANGED <<serverVars, advisorVars>>
  /\ \E sender \in Callers, projectId \in ProjectIds, carbonCredits \in CreditAmounts,
        now \in Timestamps :
       verifyProjectAndMint(sender, projectId, carbonCredits, now)

RejectProject ==
  /\ UNCHANGED <<serverVars, advisorVars>>
  /\ totalRejectedProjects < MaxRejections
  /\ \E sender \in Callers, projectId \in ProjectIds, now \in Timestamps :
       rejectProject(sender, projectId, now)

LockProject ==
  /\ UNCHANGED <<serverVars, advisorVars>>
  /\ \E sender \in Callers, projectId \in ProjectIds : lockProject(sender, projectId)

UnlockProject ==
  /\ UNCHANGED <<serverVars, advisorVars>>
  /\ \E sender \in Callers, projectId \in ProjectIds : unlockProject(sender, projectId)

GrantAdminRole ==
  /\ UNCHANGED <<serverVars, advisorVars>>
  /\ \E sender \in {Deployer} : grantAdminRole(sender, RegistryAddr)

TransferOwnership ==
  /\ UNCHANGED <<serverVars, advisorVars>>
  /\ \E sender \in {Deployer} : transferOwnership(sender, RegistryAddr)

\* the accounts of the deployment call it; the registry has no function that does
UpdateCarbonCredits ==
  /\ UNCHANGED <<serverVars, advisorVars>>
  /\ \E sender \in Callers, tokenId \in 0..Cardinality(ProjectIds),
        newCarbonCredits \in CreditAmounts :
       updateCarbonCredits(sender, tokenId, newCarbonCredits)

NextRegistry ==
  \/ RegisterProject
  \/ VerifyProjectAndMint
  \/ RejectProject
  \/ LockProject
  \/ UnlockProject
  \/ GrantAdminRole
  \/ TransferOwnership
  \/ UpdateCarbonCredits

vars == <<chainVars, lastCall>>

(***************************************************************************)
(* BlueCarbon called directly by accounts: an admin mints, holders retire,  *)
(* burn and transfer                                                        *)
(***************************************************************************)
\* BlueCarbon.verifyProjectAndMint
blueCarbonVerifyProjectAndMint(caller, projectId, ngoAddress, creditsAmount) ==
  LET result == blueCarbonMintCheck(caller, projectId, ngoAddress, creditsAmount)
  IN /\ lastCall' = Receipt("BlueCarbon.verifyProjectAndMint", projectId, result,
                            NoStatus)
     /\ IF result = "ok"
        THEN /\ verifiedProjects' = [verifiedProjects EXCEPT ![projectId] = TRUE]
             /\ projectCredits' = [projectCredits EXCEPT ![projectId] = creditsAmount]
             /\ totalProjectsVerified' = totalProjectsVerified + 1
             /\ totalCreditsIssued' = totalCreditsIssued + creditsAmount
             /\ balanceOf' = [balanceOf EXCEPT ![ngoAddress] =
                                Plus(@, MintAmount(creditsAmount))]
             /\ totalSupply' = Plus(totalSupply, MintAmount(creditsAmount))
             /\ creditEvents' = [creditEvents EXCEPT ![projectId] = @ + 1]
             /\ UNCHANGED <<registryVars, adminRole, totalCreditsRetired, nftVars,
                            certificateEvents, registeredEvidence>>
        ELSE UNCHANGED chainVars

retireCreditsCheck(sender, amount) ==
  IF ~(amount # Nothing /\ AtLeast(amount, Nothing))
    THEN "BlueCarbon: amount must be greater than 0"
  ELSE IF ~AtLeast(balanceOf[sender], amount) THEN "BlueCarbon: insufficient balance"
  ELSE "ok"

\* ERC20._burn(account, amount)
Burnt(account, amount) ==
  /\ balanceOf' = [balanceOf EXCEPT ![account] = Minus(@, amount)]
  /\ totalSupply' = Minus(totalSupply, amount)

RetiredUncounted(amount) == totalCreditsRetired

\* totalCreditsRetired += amount
Retired(amount) == Plus(totalCreditsRetired, amount)

\* BlueCarbon.retireCredits
retireCredits(sender, amount) ==
  LET result == retireCreditsCheck(sender, amount)
  IN /\ lastCall' = Receipt("retireCredits", "", result, NoStatus)
     /\ IF result = "ok"
        THEN /\ totalCreditsRetired' = Retired(amount)
             /\ Burnt(sender, amount)
             /\ UNCHANGED <<registryVars, adminRole, verifiedProjects, projectCredits,
                            totalProjectsVerified, totalCreditsIssued, nftVars,
                            logVars>>
        ELSE UNCHANGED chainVars

\* BlueCarbon.burn: ERC20Burnable.burn reverts when the balance is too small
burn(sender, amount) ==
  LET result == IF ~AtLeast(balanceOf[sender], amount)
                THEN "ERC20: burn amount exceeds balance" ELSE "ok"
  IN /\ lastCall' = Receipt("burn", "", result, NoStatus)
     /\ IF result = "ok"
        THEN /\ totalCreditsRetired' = Retired(amount)
             /\ Burnt(sender, amount)
             /\ UNCHANGED <<registryVars, adminRole, verifiedProjects, projectCredits,
                            totalProjectsVerified, totalCreditsIssued, nftVars,
                            logVars>>
        ELSE UNCHANGED chainVars

\* ERC20.transfer, which BlueCarbon inherits unchanged
transfer(sender, to, amount) ==
  LET result == IF to = ZeroAddress THEN "ERC20: transfer to the zero address"
                ELSE IF ~AtLeast(balanceOf[sender], amount)
                  THEN "ERC20: transfer amount exceeds balance"
                ELSE "ok"
  IN /\ lastCall' = Receipt("transfer", "", result, NoStatus)
     /\ IF result = "ok"
        THEN /\ balanceOf' = [a \in Addresses |->
                  IF a = sender /\ a = to THEN balanceOf[a]
                  ELSE IF a = sender THEN Minus(balanceOf[a], amount)
                  ELSE IF a = to THEN Plus(balanceOf[a], amount)
                  ELSE balanceOf[a]]
             /\ UNCHANGED <<registryVars, adminRole, verifiedProjects, projectCredits,
                            totalProjectsVerified, totalCreditsIssued,
                            totalCreditsRetired, totalSupply, nftVars, logVars>>
        ELSE UNCHANGED chainVars

BlueCarbonVerifyProjectAndMint ==
  /\ UNCHANGED <<serverVars, advisorVars>>
  /\ \E caller \in Callers, projectId \in ProjectIds,
        ngoAddress \in Addresses \cup {ZeroAddress}, creditsAmount \in CreditAmounts :
       blueCarbonVerifyProjectAndMint(caller, projectId, ngoAddress, creditsAmount)

RetireCredits ==
  /\ UNCHANGED <<serverVars, advisorVars>>
  /\ totalCreditsRetired.units < MaxUnits
  /\ \E sender \in Addresses, amount \in TokenAmounts : retireCredits(sender, amount)

Burn ==
  /\ UNCHANGED <<serverVars, advisorVars>>
  /\ totalCreditsRetired.units < MaxUnits
  /\ \E sender \in Addresses, amount \in TokenAmounts : burn(sender, amount)

Transfer ==
  /\ UNCHANGED <<serverVars, advisorVars>>
  /\ \E sender \in Addresses, to \in Addresses \cup {ZeroAddress},
        amount \in TokenAmounts :
       /\ (to \in Addresses /\ amount.units > 0) => balanceOf[to].units < MaxUnits
       /\ transfer(sender, to, amount)

NextBlueCarbon ==
  \/ BlueCarbonVerifyProjectAndMint
  \/ RetireCredits
  \/ Burn
  \/ Transfer

(***************************************************************************)
(* Properties of the registry                                              *)
(***************************************************************************)
Registered == {p \in ProjectIds : projects[p].projectId # ""}

RegisterInputs ==
  Submitters \X (ProjectIds \cup {""}) \X Areas \X Latitudes \X Longitudes \X IpfsHashes

\* C1: of the registrations that present one location fingerprint at most one
\* succeeds: registered projects have pairwise different fingerprints; a
\* registration whose fingerprint is already used is refused, as a duplicate
\* location when its project id is new; a registration that succeeds brought a
\* fingerprint that was unused, and one that is refused changes nothing
C1_AtMostOnePerLocation ==
  /\ [](/\ \A p, q \in Registered :
             projects[p].locationHash = projects[q].locationHash => p = q
        /\ \A i \in RegisterInputs :
             LocationHash(i[4], i[5], i[3]) \in usedLocationHashes
             => /\ registerProjectCheck(i[1], i[2], i[3], i[4], i[5], i[6]) # "ok"
                /\ (i[2] \in ProjectIds \ Registered
                      => registerProjectCheck(i[1], i[2], i[3], i[4], i[5], i[6])
                           = "CarbonRegistry: Location already registered"))
  /\ [][lastCall'.op = "registerProject"
        => IF lastCall'.result = "ok"
           THEN /\ projects'[lastCall'.projectId].locationHash \notin usedLocationHashes
                /\ projects'[lastCall'.projectId].locationHash \in usedLocationHashes'
           ELSE UNCHANGED chainVars]_vars

\* P1 is registered and pending, and the registration of P12 at P1's location
\* has just failed as a duplicate location
C1_Witness ==
  /\ projects["P1"].status = "Pending"
  /\ projects["P1"].locationHash = LocationHash("10.0", "20.0", 5)
  /\ Registered = {"P1"}
  /\ lastCall = Receipt("registerProject", "P12",
                        "CarbonRegistry: Location already registered", NoStatus)

CertificatesOf(projectId) ==
  {t \in DOMAIN tokenToProject : tokenToProject[t].projectId = projectId}

\* C2: for every project id the fungible credits were minted at most once and
\* at most one certificate token exists
C2_NoDuplicateIssuance ==
  \A p \in ProjectIds :
    /\ creditEvents[p] <= 1
    /\ certificateEvents[p] <= 1
    /\ Cardinality(CertificatesOf(p)) <= 1

\* a verified project was locked and unlocked, is pending again, and a new
\* verification attempt on it has just been refused by the token contract
C2_Witness ==
  \E p \in Registered :
    /\ creditEvents[p] = 1
    /\ certificateEvents[p] = 1
    /\ projects[p].status = "Pending"
    /\ lastCall = Receipt("verifyProjectAndMint", p,
                          "BlueCarbon: project already verified", NoStatus)

MintFailures ==
  {"BlueCarbon: caller is not an admin", "BlueCarbon: project already verified",
   "BlueCarbon: credits amount must be greater than 0",
   "BlueCarbon: invalid NGO address", "Ownable: caller is not the owner",
   "Project already certified", "Invalid beneficiary address",
   "Area must be greater than 0", "ERC721: transfer to non ERC721Receiver"}

C4_LockUnlockRestores ==
  (/\ lastCall.op = "unlockProject"
   /\ lastCall.result = "ok"
   /\ lastCall.prevStatus \in {"Pending", "Verified", "Rejected"})
  => projects[lastCall.projectId].status = lastCall.prevStatus

\* C6: every Verified project has carbonCredits > 0
C6_VerifiedHasCredits ==
  \A p \in Registered :
    projects[p].status = "Verified" => projects[p].carbonCredits > 0

\* a verification has just succeeded
C6_Witness ==
  \E p \in Registered :
    /\ projects[p].status = "Verified"
    /\ lastCall = Receipt("verifyProjectAndMint", p, "ok", NoStatus)

\* C10: no two registered projects were registered with the same evidence
\* content hash; a registration that presents evidence already registered
\* fails with "CarbonRegistry: Data already submitted"
C10_EvidenceRegisteredOnce ==
  /\ \A p, q \in Registered :
       registeredEvidence[p] = registeredEvidence[q] => p = q
  /\ \A i \in RegisterInputs :
       (/\ i[2] \in ProjectIds \ Registered
        /\ i[3] > 0
        /\ \E q \in Registered : registeredEvidence[q] = i[6])
       => registerProjectCheck(i[1], i[2], i[3], i[4], i[5], i[6])
            \in {"CarbonRegistry: Data already submitted",
                 "CarbonRegistry: Location already registered"}

FungibleMintFailures ==
  {"BlueCarbon: caller is not an admin", "BlueCarbon: project already verified",
   "BlueCarbon: credits amount must be greater than 0",
   "BlueCarbon: invalid NGO address"}

CertificateMintFailures == MintFailures \ FungibleMintFailures

\* C11: after a verification attempt whose fungible credit mint failed the
\* project is Pending, no certificate exists for it, its fingerprints are
\* reserved, and nothing stands in the way of a later attempt succeeding
\* (neither token contract holds the project as issued)
C11_CleanRollback ==
  \A p \in Registered :
    (/\ lastCall.op = "verifyProjectAndMint"
     /\ lastCall.projectId = p
     /\ lastCall.result \in FungibleMintFailures)
    => /\ projects[p].status = "Pending"
       /\ CertificatesOf(p) = {}
       /\ ~projectCertified[p]
       /\ projects[p].locationHash \in usedLocationHashes
       /\ projects[p].dataHash \in usedDataHashes
       /\ ~verifiedProjects[p]

C13_TerminalStatuses ==
  /\ \A p \in Registered :
       verifiedProjects[p] => projects[p].status \in {"Verified", "Locked"}
  /\ (/\ lastCall.op = "unlockProject"
      /\ lastCall.result = "ok"
      /\ lastCall.prevStatus = "Rejected")
     => projects[lastCall.projectId].status \notin {"Pending", "Verified"}

\* C15: a registration with area 0 or with an existing project id fails; a
\* failed registration changes nothing; no later call writes the identity of
\* a registered project again, and no register call touches its record
C15_FailedRegisterChangesNothing ==
  /\ [](\A i \in RegisterInputs :
          /\ ~(i[3] > 0) =>
               registerProjectCheck(i[1], i[2], i[3], i[4], i[5], i[6])
                 \in {"CarbonRegistry: Empty project ID",
                      "CarbonRegistry: Area must be greater than 0"}
          /\ (i[3] > 0 /\ i[2] \in Registered) =>
               registerProjectCheck(i[1], i[2], i[3], i[4], i[5], i[6])
                 = "CarbonRegistry: Project ID already exists")
  /\ [][(lastCall'.op = "registerProject" /\ lastCall'.result # "ok")
        => UNCHANGED <<projects, usedLocationHashes, usedDataHashes,
                       submitterProjects, totalRegisteredProjects>>]_vars
  /\ [][\A p \in Registered :
          /\ projects'[p].projectId = p
          /\ projects'[p].submitter = projects[p].submitter
          /\ projects'[p].areaHectares = projects[p].areaHectares
          /\ projects'[p].locationHash = projects[p].locationHash
          /\ projects'[p].dataHash = projects[p].dataHash
          /\ (lastCall'.op = "registerProject" => projects'[p] = projects[p])]_vars

\* a registration under an id that is registered has just been refused
C15_Witness ==
  \E p \in Registered :
    lastCall = Receipt("registerProject", p,
                       "CarbonRegistry: Project ID already exists", NoStatus)

\* C16: a fingerprint once used stays used; the fingerprints of every
\* registered project are used; a registration at the location of a Rejected
\* project is refused
C16_ReservationsPermanent ==
  /\ [][/\ usedLocationHashes \subseteq usedLocationHashes'
        /\ usedDataHashes \subseteq usedDataHashes']_vars
  /\ [](\A p \in Registered :
          /\ projects[p].locationHash \in usedLocationHashes
          /\ projects[p].dataHash \in usedDataHashes
          /\ \A i \in RegisterInputs :
               (/\ projects[p].status = "Rejected"
                /\ LocationHash(i[4], i[5], i[3]) = projects[p].locationHash)
               => registerProjectCheck(i[1], i[2], i[3], i[4], i[5], i[6]) # "ok")

\* a project is Rejected and a registration of a new id at a used location
\* has just been refused as a duplicate location
C16_Witness ==
  \E p \in Registered :
    /\ projects[p].status = "Rejected"
    /\ lastCall.op = "registerProject"
    /\ lastCall.projectId \in ProjectIds \ Registered
    /\ lastCall.result = "CarbonRegistry: Location already registered"
    /\ usedLocationHashes = {projects[p].locationHash}

\* C17: the credit mint comes before the certificate mint: an attempt refused
\* by the certificate mint had its credit mint accepted, an attempt whose
\* credit mint fails is refused with the credit contract's reason whatever the
\* certificate contract would say; the amount in a project's certificate is
\* the amount minted as credits for it
C17_FungibleBeforeCertificate ==
  /\ \A p \in ProjectIds :
       projectCertified[p] =>
         /\ verifiedProjects[p]
         /\ projectToTokenId[p] \in DOMAIN tokenToProject
         /\ tokenToProject[projectToTokenId[p]].carbonCredits = projectCredits[p]
  /\ \A sender \in Callers, p \in Registered, c \in CreditAmounts :
       LET result == verifyProjectAndMintCheck(sender, p, c)
           fungible == blueCarbonMintCheck(RegistryAddr, p, projects[p].submitter, c)
       IN /\ result \in CertificateMintFailures => fungible = "ok"
          /\ (rejectProjectCheck(sender, p) = "ok" /\ c > 0 /\ fungible # "ok")
               => result = fungible
  /\ (lastCall.op = "verifyProjectAndMint"
        /\ lastCall.result \in CertificateMintFailures)
     => /\ RegistryAddr \in adminRole
        /\ ~verifiedProjects[lastCall.projectId]

\* a project has just been verified with the largest amount: its certificate
\* carries the amount that was minted; and another verification would be
\* refused by both token contracts
C17_Witness ==
  \E p \in Registered :
    /\ lastCall = Receipt("verifyProjectAndMint", p, "ok", NoStatus)
    /\ projectCredits[p] = MaxCredits
    /\ tokenToProject[projectToTokenId[p]].carbonCredits = MaxCredits
    /\ blueCarbonMintCheck(RegistryAddr, p, projects[p].submitter, MaxCredits) # "ok"
    /\ mintCertificateCheck(RegistryAddr, p, projects[p].areaHectares,
                            projects[p].submitter) # "ok"

(***************************************************************************)
(* Part II.  The server: routes.ts over DatabaseStorage.  The database is  *)
(* reachable: a statement fails only when it violates a constraint of the  *)
(* schema (a foreign key, NOT NULL).                                       *)
(***************************************************************************)
\* what a decimal(p, 8) column returns for the text it was given
DecimalText(text) ==
  CASE text = "10.0" -> "10.00000000"
    [] text = "10.00" -> "10.00000000"
    [] text = "20.0" -> "20.00000000"
    [] text = "21.0" -> "21.00000000"
    [] OTHER -> text

IdleRequest ==
  [kind |-> "idle", pc |-> "idle", projectId |-> 0, status |-> "",
   userId |-> Undefined, carbonCredits |-> <<>>, latitude |-> "",
   longitude |-> "", code |-> 0, statusAtStart |-> "", body |-> <<>>]

\* res.status(code).json(...): the handler has returned
Responded(request, code) ==
  [IdleRequest EXCEPT !.kind = request.kind, !.pc = "done",
                      !.projectId = request.projectId, !.status = request.status,
                      !.code = code, !.statusAtStart = request.statusAtStart]

InFlight == {r \in Slots : requests[r].pc \in {"insert", "update", "audit"}}

\* POST /api/auth/wallet: an unknown wallet gets a user with the role it asks for
AuthWallet ==
  /\ UNCHANGED <<vars, advisorVars>>
  /\ \E u \in UserIds :
       /\ u \notin DOMAIN users
       /\ users' = users @@ (u :> RequestedRole[u])
       /\ UNCHANGED <<projectRows, auditLogs, requests>>

(***************************************************************************)
(* POST /api/projects                                                      *)
(***************************************************************************)
\* insertProjectSchema.parse(req.body), then storage.createProject is called
CreateReceive(r, valid, submittedBy, latitude, longitude) ==
  /\ requests[r].pc = "idle"
  /\ Len(projectRows) + Cardinality({q \in Slots : requests[q].pc = "insert"})
       < MaxProjects
  /\ Len(auditLogs) + Cardinality(InFlight) < MaxAuditLogs
  /\ requests' = [requests EXCEPT ![r] =
       IF ~valid THEN Responded([IdleRequest EXCEPT !.kind = "create"], 400)
       ELSE [IdleRequest EXCEPT !.kind = "create", !.pc = "insert",
                                !.userId = submittedBy, !.latitude = latitude,
                                !.longitude = longitude]]
  /\ UNCHANGED <<users, projectRows, auditLogs>>

\* the row storage.createProject inserts: the columns not given take their defaults
NewRow(submittedBy, latitude, longitude) ==
  [status |-> "pending", submittedBy |-> submittedBy, verifiedBy |-> Null,
   carbonCredits |-> 0, latitude |-> DecimalText(latitude),
   longitude |-> DecimalText(longitude), areaHectares |-> "5.00", verifiedAt |-> 0]

\* await storage.createProject(projectData)
CreateInsert(r) ==
  /\ requests[r].kind = "create" /\ requests[r].pc = "insert"
  /\ IF requests[r].userId \in DOMAIN users
     THEN /\ projectRows' = Append(projectRows,
               NewRow(requests[r].userId, requests[r].latitude, requests[r].longitude))
          /\ requests' = [requests EXCEPT ![r] =
               [IdleRequest EXCEPT !.kind = "create", !.pc = "audit",
                                   !.projectId = Len(projectRows) + 1,
                                   !.userId = requests[r].userId]]
     ELSE /\ requests' = [requests EXCEPT ![r] = Responded(requests[r], 500)]
          /\ UNCHANGED projectRows
  /\ UNCHANGED <<users, auditLogs>>

\* timestamp("timestamp").defaultNow(): the clock of the database, which has
\* advanced since the entry before was written
Now == Len(auditLogs) + 1

\* storage.createAuditLog: project_id and user_id are NOT NULL foreign keys
AuditInsertable(projectId, userId) ==
  projectId \in DOMAIN projectRows /\ userId \in DOMAIN users

\* await storage.createAuditLog({... action: "submitted" ...}); res.status(201)
CreateAudit(r) ==
  /\ requests[r].kind = "create" /\ requests[r].pc = "audit"
  /\ IF AuditInsertable(requests[r].projectId, requests[r].userId)
     THEN /\ auditLogs' = Append(auditLogs,
               [projectId |-> requests[r].projectId, userId |-> requests[r].userId,
                action |-> "submitted", timestamp |-> Now])
          /\ requests' = [requests EXCEPT ![r] = Responded(requests[r], 201)]
     ELSE /\ requests' = [requests EXCEPT ![r] = Responded(requests[r], 500)]
          /\ UNCHANGED auditLogs
  /\ UNCHANGED <<users, projectRows>>

(***************************************************************************)
(* POST /api/projects/:id/verify                                           *)
(***************************************************************************)
StatusAt(id) == IF id \in DOMAIN projectRows THEN projectRows[id].status ELSE "none"

\* the body is read and the status validated; storage.updateProject is called
VerifyReceive(r, id, status, verifiedBy, carbonCredits) ==
  /\ requests[r].pc = "idle"
  /\ Len(auditLogs) + Cardinality(InFlight) < MaxAuditLogs
  /\ requests' = [requests EXCEPT ![r] =
       IF status \notin {"verified", "rejected"}
       THEN Responded([IdleRequest EXCEPT !.kind = "verify", !.projectId = id,
                                          !.statusAtStart = StatusAt(id)], 400)
       ELSE [IdleRequest EXCEPT !.kind = "verify", !.pc = "update", !.projectId = id,
                                !.status = status, !.userId = verifiedBy,
                                !.carbonCredits = carbonCredits,
                                !.statusAtStart = StatusAt(id)]]
  /\ UNCHANGED <<users, projectRows, auditLogs>>

\* ...(carbonCredits && { carbonCredits: carbonCredits.toString() })
Truthy(carbonCredits) == carbonCredits # <<>> /\ carbonCredits[1] # 0

\* the row after db.update(projects).set(updates): an undefined value leaves
\* its column as it is
UpdatedRow(row, status, verifiedBy, carbonCredits) ==
  [row EXCEPT !.status = status,
              !.verifiedBy = IF verifiedBy = Undefined THEN @ ELSE verifiedBy,
              !.verifiedAt = 1,
              !.carbonCredits = IF Truthy(carbonCredits) THEN carbonCredits[1] ELSE @]

\* await storage.updateProject(id, updates): verified_by references users.id;
\* no row matches an unknown id
VerifyUpdate(r) ==
  /\ requests[r].kind = "verify" /\ requests[r].pc = "update"
  /\ LET q == requests[r]
         id == q.projectId
     IN IF id \in DOMAIN projectRows => q.userId \in DOMAIN users \cup {Undefined}
        THEN /\ projectRows' = IF id \in DOMAIN projectRows
                               THEN [projectRows EXCEPT ![id] =
                                      UpdatedRow(@, q.status, q.userId, q.carbonCredits)]
                               ELSE projectRows
             /\ requests' = [requests EXCEPT ![r] =
                               [q EXCEPT !.pc = "audit", !.carbonCredits = <<>>]]
        ELSE /\ requests' = [requests EXCEPT ![r] = Responded(q, 500)]
             /\ UNCHANGED projectRows
  /\ UNCHANGED <<users, auditLogs>>

\* await storage.createAuditLog({... action ...}); res.json({ project })
VerifyAudit(r) ==
  /\ requests[r].kind = "verify" /\ requests[r].pc = "audit"
  /\ IF AuditInsertable(requests[r].projectId, requests[r].userId)
     THEN /\ auditLogs' = Append(auditLogs,
               [projectId |-> requests[r].projectId, userId |-> requests[r].userId,
                action |-> requests[r].status, timestamp |-> Now])
          /\ requests' = [requests EXCEPT ![r] = Responded(requests[r], 200)]
     ELSE /\ requests' = [requests EXCEPT ![r] = Responded(requests[r], 500)]
          /\ UNCHANGED auditLogs
  /\ UNCHANGED <<users, projectRows>>

(***************************************************************************)
(* GET /api/audit                                                          *)
(***************************************************************************)
Remove(rows, k) == SubSeq(rows, 1, k - 1) \o SubSeq(rows, k + 1, Len(rows))

RECURSIVE OrderByAscTimestamp(_)
OrderByAscTimestamp(rows) ==
  IF rows = <<>> THEN <<>>
  ELSE LET k == CHOOSE k \in 1..Len(rows) :
                  \A j \in 1..Len(rows) :
                    \/ rows[k].timestamp < rows[j].timestamp
                    \/ rows[k].timestamp = rows[j].timestamp /\ k <= j
       IN <<rows[k]>> \o OrderByAscTimestamp(Remove(rows, k))

\* .orderBy(desc(auditLogs.timestamp))
RECURSIVE OrderByDescTimestamp(_)
OrderByDescTimestamp(rows) ==
  IF rows = <<>> THEN <<>>
  ELSE LET k == CHOOSE k \in 1..Len(rows) :
                  \A j \in 1..Len(rows) :
                    \/ rows[k].timestamp > rows[j].timestamp
                    \/ rows[k].timestamp = rows[j].timestamp /\ k <= j
       IN <<rows[k]>> \o OrderByDescTimestamp(Remove(rows, k))

\* req.query.projectId: absent, or one project id
AuditFilters == {<<>>} \cup {<<id>> : id \in 1..MaxProjects}

\* .where(eq(auditLogs.projectId, projectId)) when projectId is given
Matches(entry, projectId) == projectId = <<>> \/ entry.projectId = projectId[1]

\* storage.getAuditLogs(projectId?)
getAuditLogs(projectId) ==
  LET Selected(entry) == Matches(entry, projectId)
  IN OrderByDescTimestamp(SelectSeq(auditLogs, Selected))

\* the handler: one awaited query, then res.json({ auditLogs })
GetAudit(r, projectId) ==
  /\ requests[r].pc = "idle"
  /\ requests' = [requests EXCEPT ![r] =
       [IdleRequest EXCEPT !.kind = "audit", !.pc = "done", !.code = 200,
                           !.projectId = IF projectId = <<>> THEN 0 ELSE projectId[1],
                           !.body = getAuditLogs(projectId)]]
  /\ UNCHANGED <<users, projectRows, auditLogs>>

\* the client has its response: the request is over
Complete(r) ==
  /\ requests[r].pc = "done"
  /\ requests' = [requests EXCEPT ![r] = IdleRequest]
  /\ UNCHANGED <<users, projectRows, auditLogs>>

InitServer ==
  /\ users = <<>>
  /\ projectRows = <<>>
  /\ auditLogs = <<>>
  /\ requests = [r \in Slots |-> IdleRequest]

\* one request is handled at a time: its awaited storage calls are separate
\* steps, with the tables observable in between
Sequential == {"r1"}

PostProject ==
  /\ UNCHANGED <<vars, advisorVars>>
  /\ \E r \in Sequential, valid \in BOOLEAN, submittedBy \in Submitters,
        latitude \in Latitudes, longitude \in ServerLongitudes :
       CreateReceive(r, valid, submittedBy, latitude, longitude)

PostVerify ==
  /\ UNCHANGED <<vars, advisorVars>>
  /\ \E r \in Sequential, id \in 1..MaxProjects,
        status \in {"verified", "rejected", "pending"},
        verifiedBy \in UserIds \cup {Undefined}, carbonCredits \in CreditFields :
       VerifyReceive(r, id, status, verifiedBy, carbonCredits)

CreateProjectStep ==
  UNCHANGED <<vars, advisorVars>> /\ \E r \in Sequential : CreateInsert(r)

CreateAuditStep ==
  UNCHANGED <<vars, advisorVars>> /\ \E r \in Sequential : CreateAudit(r)

UpdateProjectStep ==
  UNCHANGED <<vars, advisorVars>> /\ \E r \in Sequential : VerifyUpdate(r)

VerifyAuditStep ==
  UNCHANGED <<vars, advisorVars>> /\ \E r \in Sequential : VerifyAudit(r)

GetAuditLogs ==
  UNCHANGED <<vars, advisorVars>> /\ \E r \in Sequential, projectId \in AuditFilters : GetAudit(r, projectId)

Respond == UNCHANGED <<vars, advisorVars>> /\ \E r \in Sequential : Complete(r)

NextServer ==
  \/ AuthWallet
  \/ PostProject
  \/ PostVerify
  \/ CreateProjectStep
  \/ CreateAuditStep
  \/ UpdateProjectStep
  \/ VerifyAuditStep
  \/ GetAuditLogs
  \/ Respond

\* two decisions on the first project are handled at the same time, each by an
\* existing user; their storage calls interleave in every order
ConcurrentPostProject ==
  /\ UNCHANGED <<vars, advisorVars>>
  /\ projectRows = <<>>
  /\ \E r \in Slots, submittedBy \in Submitters, latitude \in Latitudes,
        longitude \in ServerLongitudes :
       CreateReceive(r, TRUE, submittedBy, latitude, longitude)

ConcurrentPostVerify ==
  /\ UNCHANGED <<vars, advisorVars>>
  /\ \E r \in Slots, status \in {"verified", "rejected"}, verifiedBy \in UserIds,
        carbonCredits \in {<<>>, <<1>>} :
       VerifyReceive(r, 1, status, verifiedBy, carbonCredits)

ConcurrentCreateProjectStep ==
  UNCHANGED <<vars, advisorVars>> /\ \E r \in Slots : CreateInsert(r)

ConcurrentCreateAuditStep ==
  UNCHANGED <<vars, advisorVars>> /\ \E r \in Slots : CreateAudit(r)

ConcurrentUpdateProjectStep ==
  UNCHANGED <<vars, advisorVars>> /\ \E r \in Slots : VerifyUpdate(r)

ConcurrentVerifyAuditStep ==
  UNCHANGED <<vars, advisorVars>> /\ \E r \in Slots : VerifyAudit(r)

ConcurrentRespond == UNCHANGED <<vars, advisorVars>> /\ \E r \in Slots : Complete(r)

NextConcurrent ==
  \/ AuthWallet
  \/ ConcurrentPostProject
  \/ ConcurrentPostVerify
  \/ ConcurrentCreateProjectStep
  \/ ConcurrentCreateAuditStep
  \/ ConcurrentUpdateProjectStep
  \/ ConcurrentVerifyAuditStep
  \/ ConcurrentRespond

(***************************************************************************)
(* Part III.  The advisory services: aiVerifier.js, gisService.js and      *)
(* GisVerificationService, with the routes that call them.  Scores and     *)
(* NDVI values are held in thousandths, percentages and hectares in        *)
(* tenths.  A value that may be missing (undefined, NaN) is <<>> when it   *)
(* is missing and <<v>> when it is v.                                      *)
(***************************************************************************)
IdleAdvice ==
  [kind |-> "idle", pc |-> "idle", projectId |-> 0, fieldDataId |-> 0,
   jobId |-> 0, input |-> <<>>, status |-> "", score |-> <<>>, ndvi |-> <<>>,
   anomalies |-> FALSE, areaMatches |-> FALSE]

\* the server handles one request at a time
ServerIdle == advice.pc = "idle" /\ \A r \in Slots : requests[r].pc = "idle"

(***************************************************************************)
(* POST /api/field-data, one file                                          *)
(***************************************************************************)
\* storage.createFieldData: project_id references projects.id
createFieldData(projectId) ==
  /\ ServerIdle
  /\ Len(fieldData) < MaxFieldData
  /\ fieldData' = IF projectId \in DOMAIN projectRows
                  THEN Append(fieldData, [projectId |-> projectId])
                  ELSE fieldData
  /\ UNCHANGED <<aiVerificationJobs, gisSnapshots, advice>>

(***************************************************************************)
(* POST /api/verification/submit: verifyMangroveImage                      *)
(***************************************************************************)
\* what the vision model answers: verificationConfidence may be missing
VisionResponses ==
  {[verificationConfidence |-> <<>>, mangroveCharacteristics |-> TRUE,
    anomaliesDetected |-> FALSE],
   [verificationConfidence |-> <<200>>, mangroveCharacteristics |-> TRUE,
    anomaliesDetected |-> FALSE],
   [verificationConfidence |-> <<550>>, mangroveCharacteristics |-> FALSE,
    anomaliesDetected |-> FALSE],
   [verificationConfidence |-> <<900>>, mangroveCharacteristics |-> TRUE,
    anomaliesDetected |-> FALSE],
   [verificationConfidence |-> <<900>>, mangroveCharacteristics |-> TRUE,
    anomaliesDetected |-> TRUE]}

\* confidence >= threshold: false when confidence is undefined
ConfidenceAtLeast(confidence, threshold) ==
  confidence # <<>> /\ confidence[1] >= threshold

\* lines 95-104
verificationStatus(analysisResults) ==
  IF /\ ConfidenceAtLeast(analysisResults.verificationConfidence, 800)
     /\ analysisResults.mangroveCharacteristics
     /\ ~analysisResults.anomaliesDetected
  THEN "verified"
  ELSE IF /\ ConfidenceAtLeast(analysisResults.verificationConfidence, 500)
          /\ ~analysisResults.anomaliesDetected
    THEN "verified"
  ELSE "suspicious"

\* the row db.insert(aiVerificationJobs) adds
NewJob(projectId, fieldDataId) ==
  [projectId |-> projectId, fieldDataId |-> fieldDataId, status |-> "pending",
   verificationScore |-> <<>>, analysisResults |-> <<>>]

\* the handler up to its first await: without an image it answers 400, without
\* an API key verifyMangroveImage answers 'failed' and writes nothing; else the
\* job row is inserted, unless a foreign key refuses it
AiSubmit(hasImage, configured, projectId, fieldDataId) ==
  /\ ServerIdle
  /\ Len(aiVerificationJobs) < MaxJobs
  /\ LET call == [IdleAdvice EXCEPT !.kind = "ai", !.projectId = projectId,
                                    !.fieldDataId = fieldDataId]
     IN IF ~hasImage
        THEN /\ advice' = [call EXCEPT !.pc = "done", !.status = "400"]
             /\ UNCHANGED aiVerificationJobs
        ELSE IF ~configured
        THEN /\ advice' = [call EXCEPT !.pc = "done", !.status = "failed",
                                       !.score = <<0>>, !.anomalies = TRUE]
             /\ UNCHANGED aiVerificationJobs
        ELSE IF projectId \in DOMAIN projectRows /\ fieldDataId \in DOMAIN fieldData
        THEN /\ aiVerificationJobs' =
                  Append(aiVerificationJobs, NewJob(projectId, fieldDataId))
             /\ advice' = [call EXCEPT !.pc = "vision",
                                       !.jobId = Len(aiVerificationJobs) + 1]
        ELSE /\ advice' = [call EXCEPT !.pc = "catch"]
             /\ UNCHANGED aiVerificationJobs
  /\ UNCHANGED <<fieldData, gisSnapshots>>

\* await openai.chat.completions.create, JSON.parse and the decision: response
\* is <<>> when the call or the parse throws; confidence.toString() throws
\* when the confidence is undefined
AiVision(response) ==
  /\ advice.kind = "ai" /\ advice.pc = "vision"
  /\ advice' =
       IF response = <<>> THEN [advice EXCEPT !.pc = "catch"]
       ELSE IF response[1].verificationConfidence = <<>>
         THEN [advice EXCEPT !.pc = "catch", !.input = response]
       ELSE [advice EXCEPT !.pc = "update", !.input = response,
                           !.status = verificationStatus(response[1]),
                           !.score = response[1].verificationConfidence,
                           !.anomalies = response[1].anomaliesDetected]
  /\ UNCHANGED <<fieldData, aiVerificationJobs, gisSnapshots>>

\* lines 115-133: the update of the job row by its id, and the answer
AiUpdate ==
  /\ advice.kind = "ai" /\ advice.pc = "update"
  /\ aiVerificationJobs' = [aiVerificationJobs EXCEPT ![advice.jobId] =
       [@ EXCEPT !.status = advice.status, !.verificationScore = advice.score,
                 !.analysisResults = advice.input]]
  /\ advice' = [advice EXCEPT !.pc = "done"]
  /\ UNCHANGED <<fieldData, gisSnapshots>>

(***************************************************************************)
(* POST /api/gis/validate: validateProjectLocation                         *)
(***************************************************************************)
\* what the satellite query returns: ndviGrid may be absent
NdviGrids ==
  {<<>>, <<<<>>>>, <<<<1500>>>>, <<<<200, 300>>>>, <<<<400, 500>>>>}

SentinelData == {[ndviGrid |-> grid, areaHectares |-> 100] : grid \in NdviGrids}

\* the areaHectares of the request, in hectares
ClaimedAreas == {0, 65}

RECURSIVE Sum(_)
Sum(values) == IF values = <<>> THEN 0 ELSE Head(values) + Sum(Tail(values))

\* n / d rounded to the nearest integer, as toFixed does (n >= 0, d > 0)
Rounded(n, d) == (2 * n + d) \div (2 * d)

\* line 172-177: the statistics returned when there are no NDVI values
MockStats == [averageNDVI |-> <<400>>, vegetationPercentage |-> <<650>>]

\* calculateNDVIStats: averageNDVI and vegetationPercentage are NaN when no
\* value is in range
calculateNDVIStats(sentinelData) ==
  LET ndviValues == IF sentinelData.ndviGrid = <<>> THEN <<>>
                    ELSE sentinelData.ndviGrid[1]
      InRange(val) == val > 0 - 1000 /\ val < 1000
      Vegetated(val) == val > 300
      validNDVI == SelectSeq(ndviValues, InRange)
  IN IF Len(ndviValues) = 0 THEN MockStats
     ELSE IF validNDVI = <<>>
       THEN [averageNDVI |-> <<>>, vegetationPercentage |-> <<>>]
     ELSE [averageNDVI |-> <<Rounded(Sum(validNDVI), Len(validNDVI))>>,
           vegetationPercentage |->
             <<Rounded(Len(SelectSeq(validNDVI, Vegetated)) * 1000,
                       Len(validNDVI))>>]

\* calculateVegetationArea, in tenths of a hectare
calculateVegetationArea(sentinelData, ndviStats) ==
  LET totalAreaHa == IF sentinelData.areaHectares = 0 THEN 100
                     ELSE sentinelData.areaHectares
  IN IF ndviStats.vegetationPercentage = <<>> THEN <<>>
     ELSE <<Rounded(totalAreaHa * ndviStats.vegetationPercentage[1], 100)>>

\* Math.abs(vegetationAreaHa - areaHectares) / areaHectares <= 0.3: false when
\* the quotient is NaN or Infinity
areaMatches(vegetationAreaHa, areaHectares) ==
  /\ vegetationAreaHa # <<>>
  /\ areaHectares > 0
  /\ LET difference == vegetationAreaHa[1] - 10 * areaHectares
     IN 10 * (IF difference < 0 THEN 0 - difference ELSE difference)
          <= 3 * 10 * areaHectares

\* ndviStats.averageNDVI > 0.3
validated(ndviStats) ==
  ndviStats.averageNDVI # <<>> /\ ndviStats.averageNDVI[1] > 300

\* the whole function: the snapshot is inserted (project_id references
\* projects.id) and the validation returned; an error gives validated: false
validateProjectLocation(projectId, areaHectares, sentinelData) ==
  /\ ServerIdle
  /\ Len(gisSnapshots) < MaxSnapshots
  /\ LET ndviStats == calculateNDVIStats(sentinelData)
         vegetationAreaHa == calculateVegetationArea(sentinelData, ndviStats)
         call == [IdleAdvice EXCEPT !.kind = "gis", !.pc = "done",
                                    !.projectId = projectId,
                                    !.input = <<sentinelData>>]
     IN IF projectId \in DOMAIN projectRows
        THEN /\ gisSnapshots' = Append(gisSnapshots,
                  [projectId |-> projectId, areaValidatedHa |-> vegetationAreaHa,
                   ndviStats |-> ndviStats])
             /\ advice' = [call EXCEPT
                  !.status = IF validated(ndviStats) THEN "validated"
                             ELSE "not validated",
                  !.ndvi = ndviStats.averageNDVI,
                  !.areaMatches = areaMatches(vegetationAreaHa, areaHectares)]
        ELSE /\ advice' = [call EXCEPT !.status = "not validated"]
             /\ UNCHANGED gisSnapshots
  /\ UNCHANGED <<fieldData, aiVerificationJobs>>

(***************************************************************************)
(* GisVerificationService.verifyPlantationArea                             *)
(***************************************************************************)
ProjectTypes == {"mangrove", "seagrass"}

\* tropicalBonus * randomVariation: from 0.8 to 1.2 * 1.2
LocationFactors == {800, 1440}

\* Math.random() * 15
CloudCovers == {0, 14}

\* baseScore * randomFactor of simulateGisVerification, at most 1
SimulatedScores == {480, 650, 960}

\* 0.3 + Math.random() * 0.5
SimulatedNdvi == {300, 790}

getBaseNdviForProjectType(projectType) ==
  CASE projectType = "mangrove" -> 700
    [] projectType = "seagrass" -> 400
    [] projectType = "saltmarsh" -> 600
    [] OTHER -> 500

\* analyzeVegetation: Math.min(1.0, baseNdvi * locationFactor)
analyzeVegetation(projectType, locationFactor) ==
  LET ndvi == (getBaseNdviForProjectType(projectType) * locationFactor) \div 1000
  IN IF ndvi > 1000 THEN 1000 ELSE ndvi

\* lines 241-245: the sum of the increments
confidenceScore(ndvi, cloudCover, coastalCheck, projectType) ==
  (IF ndvi > 300 THEN 400 ELSE 0)
  + (IF coastalCheck THEN 300 ELSE 0)
  + (IF cloudCover < 20 THEN 200 ELSE 0)
  + (IF projectType = "mangrove" /\ ndvi > 500 THEN 100 ELSE 0)

\* generateVerificationResult: status, confidence, vegetation index, and
\* whether anomalies are listed.  confidenceScore > 0.6 is taken on the doubles
\* the increments add up to: 0.4 + 0.2 is 0.6000000000000001, and no other sum
\* lies between 0.5 and 0.7
generateVerificationResult(ndvi, cloudCover, coastalCheck, projectType) ==
  LET score == confidenceScore(ndvi, cloudCover, coastalCheck, projectType)
  IN [status |-> IF score >= 600 /\ coastalCheck /\ ndvi > 300
                 THEN "verified" ELSE "failed",
      confidenceScore |-> IF score > 1000 THEN 1000 ELSE score,
      vegetationIndex |-> ndvi,
      anomalies |-> ~coastalCheck \/ ndvi < 200 \/ cloudCover > 50]

\* simulateGisVerification
simulateGisVerification(finalScore, coastalCheck, ndvi) ==
  [status |-> IF finalScore > 600 /\ coastalCheck THEN "verified" ELSE "failed",
   confidenceScore |-> finalScore,
   vegetationIndex |-> ndvi,
   anomalies |-> finalScore < 600]

\* the result when no imagery is available or the service throws
NoImagery ==
  [status |-> "failed", confidenceScore |-> 0, vegetationIndex |-> 0,
   anomalies |-> TRUE]

\* verifyPlantationArea: nothing is stored
verifyPlantationArea(result) ==
  /\ ServerIdle
  /\ advice' = [IdleAdvice EXCEPT !.kind = "plantation", !.pc = "done",
                                  !.status = result.status,
                                  !.score = <<result.confidenceScore>>,
                                  !.ndvi = <<result.vegetationIndex>>,
                                  !.anomalies = result.anomalies]
  /\ UNCHANGED <<fieldData, aiVerificationJobs, gisSnapshots>>

(***************************************************************************)
(* The advisory services as a state machine: a wallet signs in, submits    *)
(* one project and uploads field data; the advisory routes are called      *)
(***************************************************************************)
InitAdvisor ==
  /\ fieldData = <<>>
  /\ aiVerificationJobs = <<>>
  /\ gisSnapshots = <<>>
  /\ advice = IdleAdvice

\* project and field data ids in the advisory requests: existing or not
AdvisedIds == 1..2

SubmitProject ==
  /\ UNCHANGED <<vars, advisorVars>>
  /\ advice.pc = "idle"
  /\ projectRows = <<>>
  /\ \E r \in Sequential, submittedBy \in Submitters, latitude \in {"10.0"},
        longitude \in Longitudes :
       CreateReceive(r, TRUE, submittedBy, latitude, longitude)

UploadFieldData ==
  /\ UNCHANGED <<vars, serverVars>>
  /\ \E projectId \in AdvisedIds : createFieldData(projectId)

SubmitVerification ==
  /\ UNCHANGED <<vars, serverVars>>
  /\ \E hasImage \in BOOLEAN, configured \in BOOLEAN, projectId \in AdvisedIds,
        fieldDataId \in AdvisedIds :
       AiSubmit(hasImage, configured, projectId, fieldDataId)

VisionAnswers ==
  /\ UNCHANGED <<vars, serverVars>>
  /\ \E response \in {<<>>} \cup {<<r>> : r \in VisionResponses} : AiVision(response)

StoreResultDecidingProject ==
  /\ UNCHANGED <<vars, users, auditLogs, requests>>
  /\ projectRows' = [id \in DOMAIN projectRows |->
       IF id = advice.projectId /\ advice.status = "verified"
       THEN [projectRows[id] EXCEPT !.status = "verified"]
       ELSE projectRows[id]]
  /\ AiUpdate

StoreResult == UNCHANGED <<vars, serverVars>> /\ AiUpdate

\* lines 135-155: the rows of the call's project and field data are set to
\* 'failed', and the answer
StoreFailure ==
  /\ UNCHANGED <<vars, serverVars>>
  /\ advice.kind = "ai" /\ advice.pc = "catch"
  /\ aiVerificationJobs' =
       [k \in DOMAIN aiVerificationJobs |->
          IF /\ aiVerificationJobs[k].projectId = advice.projectId
             /\ aiVerificationJobs[k].fieldDataId = advice.fieldDataId
          THEN [aiVerificationJobs[k] EXCEPT !.status = "failed",
                                             !.analysisResults = <<"error">>]
          ELSE aiVerificationJobs[k]]
  /\ advice' = [advice EXCEPT !.pc = "done", !.status = "failed", !.score = <<0>>]
  /\ UNCHANGED <<fieldData, gisSnapshots>>

ValidateLocation ==
  /\ UNCHANGED <<vars, serverVars>>
  /\ \E projectId \in AdvisedIds, areaHectares \in ClaimedAreas,
        sentinelData \in SentinelData :
       validateProjectLocation(projectId, areaHectares, sentinelData)

VerifyPlantationArea ==
  /\ UNCHANGED <<vars, serverVars>>
  /\ \/ \* without an API key
        \E finalScore \in SimulatedScores, coastalCheck \in BOOLEAN,
           ndvi \in SimulatedNdvi :
          verifyPlantationArea(simulateGisVerification(finalScore, coastalCheck, ndvi))
     \/ \* the imagery cannot be fetched
        verifyPlantationArea(NoImagery)
     \/ \E projectType \in ProjectTypes, locationFactor \in LocationFactors,
           cloudCover \in CloudCovers, coastalCheck \in BOOLEAN :
          verifyPlantationArea(
            generateVerificationResult(
              analyzeVegetation(projectType, locationFactor), cloudCover,
              coastalCheck, projectType))

\* res.json(result): the request is over
AdviceAnswered ==
  /\ UNCHANGED <<vars, serverVars>>
  /\ advice.pc = "done"
  /\ advice' = IdleAdvice
  /\ UNCHANGED <<fieldData, aiVerificationJobs, gisSnapshots>>

NextAdvisor ==
  \/ AuthWallet
  \/ SubmitProject
  \/ CreateProjectStep
  \/ CreateAuditStep
  \/ Respond
  \/ UploadFieldData
  \/ SubmitVerification
  \/ VisionAnswers
  \/ StoreResult
  \/ StoreFailure
  \/ ValidateLocation
  \/ VerifyPlantationArea
  \/ AdviceAnswered

(***************************************************************************)
(* Specifications: the chain and the server do not call each other, each   *)
(* is explored with the other at rest                                      *)
(***************************************************************************)
allVars == <<serverVars, advisorVars, vars>>

Init == InitRegistry /\ InitServer /\ InitAdvisor

SpecRegistry == Init /\ [][NextRegistry]_allVars

SpecServer == Init /\ [][NextServer]_allVars

SpecConcurrent == Init /\ [][NextConcurrent]_allVars

SpecBlueCarbon == Init /\ [][NextBlueCarbon]_allVars

SpecAdvisor == Init /\ [][NextAdvisor]_allVars

(***************************************************************************)
(* Properties of the server                                                *)
(***************************************************************************)
Decisions(id) ==
  {i \in DOMAIN auditLogs :
     auditLogs[i].projectId = id /\ auditLogs[i].action \in {"verified", "rejected"}}

EntriesOf(id, action) ==
  {i \in DOMAIN auditLogs : auditLogs[i].projectId = id /\ auditLogs[i].action = action}

\* C5: of two verification requests that were both received while the
\* project was pending exactly one succeeds; the other fails and adds no
\* audit entry
C5_OneConcurrentVerificationSucceeds ==
  \A r, q \in Slots :
    (/\ r # q
     /\ requests[r].kind = "verify" /\ requests[q].kind = "verify"
     /\ requests[r].pc = "done" /\ requests[q].pc = "done"
     /\ requests[r].projectId = requests[q].projectId
     /\ requests[r].statusAtStart = "pending"
     /\ requests[q].statusAtStart = "pending")
    => /\ (requests[r].code = 200) # (requests[q].code = 200)
       /\ Cardinality(Decisions(requests[r].projectId)) = 1

\* C7: every stored project whose status is 'verified' has carbonCredits > 0
C7_VerifiedRowHasCredits ==
  \A id \in DOMAIN projectRows :
    projectRows[id].status = "verified" => projectRows[id].carbonCredits > 0

\* C8: when no request is being handled, every project whose status is
\* 'verified' has exactly one 'submitted' and exactly one 'verified' audit
\* entry, the 'submitted' one first
C8_OneSubmittedOneVerified ==
  InFlight = {} =>
    \A id \in DOMAIN projectRows :
      projectRows[id].status = "verified" =>
        /\ Cardinality(EntriesOf(id, "submitted")) = 1
        /\ Cardinality(EntriesOf(id, "verified")) = 1
        /\ \A i \in EntriesOf(id, "submitted"), j \in EntriesOf(id, "verified") : i < j

LocationOf(row) == <<row.latitude, row.longitude, row.areaHectares>>

\* C9: no two stored projects have the same location fingerprint
C9_StoredLocationsDiffer ==
  \A i, j \in DOMAIN projectRows :
    LocationOf(projectRows[i]) = LocationOf(projectRows[j]) => i = j

\* C14: a request to reject a project that was already 'verified' or
\* 'rejected' fails and leaves the project's status as it was; a project has
\* at most one decision in the audit log
C14_RejectOnlyFromPending ==
  \A r \in Slots :
    (/\ requests[r].kind = "verify" /\ requests[r].pc = "done"
     /\ requests[r].status = "rejected"
     /\ requests[r].statusAtStart \in {"verified", "rejected"})
    => /\ requests[r].code # 200
       /\ projectRows[requests[r].projectId].status = requests[r].statusAtStart
       /\ Cardinality(Decisions(requests[r].projectId)) <= 1

\* the audit entries of a project that record a failure: those whose action
\* is none of the transitions
FailureEntries(id) ==
  {i \in DOMAIN auditLogs :
     /\ auditLogs[i].projectId = id
     /\ auditLogs[i].action \notin {"submitted", "verified", "rejected", "credits_minted"}}

\* C18: when a verification request has failed after it started (the caller
\* has its 500), exactly one audit entry describing the failure exists for
\* the project
C18_FailureAudited ==
  \A r \in Slots :
    (requests[r].kind = "verify" /\ requests[r].pc = "done" /\ requests[r].code = 500)
    => Cardinality(FailureEntries(requests[r].projectId)) = 1

\* C19: whatever a reader of the projects table can see has its audit entry:
\* every stored project has a 'submitted' entry, every project stored as
\* 'verified' or 'rejected' has an entry of that action
C19_AuditNoLaterThanState ==
  \A id \in DOMAIN projectRows :
    /\ EntriesOf(id, "submitted") # {}
    /\ projectRows[id].status \in {"verified", "rejected"}
         => EntriesOf(id, projectRows[id].status) # {}

\* the entries a query for projectId has to return
Matching(projectId) ==
  {i \in DOMAIN auditLogs : Matches(auditLogs[i], projectId)}

SameEntries(rows, projectId) ==
  /\ Len(rows) = Cardinality(Matching(projectId))
  /\ {rows[i] : i \in DOMAIN rows} = {auditLogs[i] : i \in Matching(projectId)}

AnsweredFilter(r) ==
  IF requests[r].projectId = 0 THEN <<>> ELSE <<requests[r].projectId>>

\* C20 as stated: getAuditLogs returns exactly the matching entries, oldest
\* first, with and without a projectId filter, and so does GET /api/audit
C20_AuditOldestFirst ==
  /\ \A projectId \in AuditFilters :
       LET rows == getAuditLogs(projectId)
       IN /\ SameEntries(rows, projectId)
          /\ \A i, j \in DOMAIN rows :
               i < j => rows[i].timestamp <= rows[j].timestamp
  /\ \A r \in Slots :
       (requests[r].kind = "audit" /\ requests[r].pc = "done")
       => \A i, j \in DOMAIN requests[r].body :
            i < j => requests[r].body[i].timestamp <= requests[r].body[j].timestamp

\* C20 as amended: getAuditLogs returns exactly the matching entries, newest
\* first, with and without a projectId filter, and so does GET /api/audit
C20_AuditNewestFirst ==
  /\ \A projectId \in AuditFilters :
       LET rows == getAuditLogs(projectId)
       IN /\ SameEntries(rows, projectId)
          /\ \A i, j \in DOMAIN rows :
               i < j => rows[i].timestamp >= rows[j].timestamp
  /\ \A r \in Slots :
       (requests[r].kind = "audit" /\ requests[r].pc = "done")
       => /\ SameEntries(requests[r].body, AnsweredFilter(r))
          /\ \A i, j \in DOMAIN requests[r].body :
               i < j => requests[r].body[i].timestamp >= requests[r].body[j].timestamp

\* a query for the first project has been answered with two entries while
\* the log also holds an entry of another project
C20_Witness ==
  \E r \in Slots :
    /\ requests[r].kind = "audit" /\ requests[r].pc = "done"
    /\ requests[r].projectId = 1
    /\ Len(requests[r].body) = 2
    /\ Len(auditLogs) = 3


(***************************************************************************)
(* Further properties of the registry                                      *)
(***************************************************************************)
\* CarbonRegistry.isLocationUsed
isLocationUsed(latitude, longitude, areaHectares) ==
  LocationHash(latitude, longitude, areaHectares) \in usedLocationHashes

\* C25: the location fingerprint does not depend on how a coordinate is
\* written: once a location is used, the same area with coordinates that denote
\* the same numbers is reported as used by isLocationUsed, and registering it
\* under a new project id is refused; two texts denote the same coordinate when
\* a decimal column stores them as the same number
C25_FingerprintTolerant ==
  \A latitude \in Latitudes, other \in Latitudes, longitude \in Longitudes,
     areaHectares \in Areas :
    (DecimalText(latitude) = DecimalText(other)
       /\ isLocationUsed(latitude, longitude, areaHectares))
    => /\ isLocationUsed(other, longitude, areaHectares)
       /\ \A sender \in Submitters, p \in ProjectIds \ Registered,
             ipfsDataHash \in IpfsHashes :
            registerProjectCheck(sender, p, areaHectares, other, longitude,
                                 ipfsDataHash) # "ok"

\* CarbonRegistry.getRegistryStats: <<>> when the checked subtraction of
\* Solidity 0.8 reverts (Panic 0x11), else the four numbers it returns
getRegistryStats ==
  IF totalRegisteredProjects - totalVerifiedProjects < 0
     \/ totalRegisteredProjects - totalVerifiedProjects - totalRejectedProjects < 0
  THEN <<>>
  ELSE <<[totalRegistered |-> totalRegisteredProjects,
          totalVerified |-> totalVerifiedProjects,
          totalRejected |-> totalRejectedProjects,
          totalPending |-> totalRegisteredProjects - totalVerifiedProjects
                             - totalRejectedProjects]>>

\* C26: the statistics are consistent: verified plus rejected never exceeds
\* registered, getRegistryStats does not revert and its totalPending is not
\* negative, and no project is counted twice as verified or as rejected
C26_StatsConsistent ==
  /\ totalVerifiedProjects + totalRejectedProjects <= totalRegisteredProjects
  /\ getRegistryStats # <<>>
  /\ getRegistryStats[1].totalPending >= 0
  /\ totalVerifiedProjects <= Cardinality(Registered)
  /\ totalRejectedProjects <= Cardinality(Registered)

\* C27: a registered project whose status is Pending has had nothing issued:
\* no credits, no certificate, no verifier, no verification time, and neither
\* token contract has it flagged
C27_PendingHasNoAssets ==
  \A p \in Registered :
    projects[p].status = "Pending"
    => /\ projects[p].carbonCredits = 0
       /\ ~projects[p].nftMinted
       /\ projects[p].verifier = ZeroAddress
       /\ projects[p].verificationTime = 0
       /\ ~verifiedProjects[p]
       /\ ~projectCertified[p]

\* C28: no Pending project is stuck: while the registry holds the admin role
\* of BlueCarbon and owns NFTCertificate, and the submitter can receive a
\* certificate, every authorized verifier can verify every Pending project
\* with a positive amount
C28_PendingCanBeVerified ==
  \A p \in Registered :
    (/\ projects[p].status = "Pending"
     /\ RegistryAddr \in adminRole
     /\ nftOwner = RegistryAddr
     /\ projects[p].submitter \in ERC721Receivers)
    => \A sender \in authorizedVerifiers, carbonCredits \in CreditAmounts :
         carbonCredits > 0
         => verifyProjectAndMintCheck(sender, p, carbonCredits) = "ok"

(***************************************************************************)
(* Properties of BlueCarbon                                                *)
(***************************************************************************)
RECURSIVE SumOfProjectCredits(_)
SumOfProjectCredits(ids) ==
  IF ids = {} THEN 0
  ELSE LET p == CHOOSE p \in ids : TRUE
       IN (IF verifiedProjects[p] THEN projectCredits[p] ELSE 0)
            + SumOfProjectCredits(ids \ {p})

RECURSIVE SumOfBalances(_)
SumOfBalances(accounts) ==
  IF accounts = {} THEN Nothing
  ELSE LET a == CHOOSE a \in accounts : TRUE
       IN Plus(balanceOf[a], SumOfBalances(accounts \ {a}))

\* C29: the supply is what was issued, in base units, less what was retired,
\* and is what the accounts hold; the credits issued are the sum of the
\* credits of the verified projects and the projects verified are counted
\* once each; a retireCredits that is refused changes nothing
C29_SupplyAccounting ==
  /\ [](/\ totalSupply = Minus(MintAmount(totalCreditsIssued), totalCreditsRetired)
        /\ totalSupply = SumOfBalances(Addresses)
        /\ totalCreditsIssued = SumOfProjectCredits(ProjectIds)
        /\ totalProjectsVerified =
             Cardinality({p \in ProjectIds : verifiedProjects[p]})
        /\ \A sender \in Addresses, amount \in TokenAmounts :
             (amount = Nothing \/ ~AtLeast(balanceOf[sender], amount))
             => retireCreditsCheck(sender, amount) # "ok")
  /\ [][(lastCall'.op = "retireCredits" /\ lastCall'.result # "ok")
          => UNCHANGED chainVars]_vars

\* credits were issued for a project, part of them was retired, a holder other
\* than the one credited holds base units (a transfer was made), and a
\* retireCredits has just been refused for lack of balance
C29_Witness ==
  /\ lastCall = Receipt("retireCredits", "", "BlueCarbon: insufficient balance",
                        NoStatus)
  /\ totalCreditsIssued >= MaxCredits
  /\ totalCreditsRetired.units > 0
  /\ \E a \in Addresses, b \in Addresses :
       a # b /\ balanceOf[a].units > 0 /\ balanceOf[b].units < 0

(***************************************************************************)
(* Further properties of the server                                        *)
(***************************************************************************)
\* C24: a project's status is decided only by an administrator: a row that is
\* verified or rejected names as verifiedBy an existing user whose role is admin
C24_OnlyAdminDecides ==
  \A id \in DOMAIN projectRows :
    projectRows[id].status \in {"verified", "rejected"}
    => /\ projectRows[id].verifiedBy \in DOMAIN users
       /\ users[projectRows[id].verifiedBy] = "admin"


(***************************************************************************)
(* Properties of the advisory services                                     *)
(***************************************************************************)
\* an answer that recommends the project
Approving == advice.pc = "done" /\ advice.status \in {"verified", "validated"}

\* C21: an advisory answer approves (status 'verified', validated true) only
\* when the scores it rests on, the vision confidence and the vegetation
\* index, exceed 0.6 and no anomaly is reported: a confidence between 0.5 and
\* 0.6 or an average NDVI between 0.3 and 0.6 never approves
C21_ApproveOnlyAboveThresholds ==
  Approving
  => /\ advice.kind = "ai" => (advice.score # <<>> /\ advice.score[1] > 600)
     /\ advice.ndvi # <<>> => advice.ndvi[1] > 600
     /\ ~advice.anomalies

C23_AdvisoryFrame ==
  [][advice' # advice
       => /\ UNCHANGED <<users, projectRows, auditLogs, requests, fieldData>>
          /\ UNCHANGED vars]_allVars

\* the vision analyzer has just approved an image of a project for which a
\* snapshot is stored too: the job row is 'verified', the project is pending
\* and undecided, and its only audit entry is its submission
C23_Witness ==
  /\ advice.kind = "ai" /\ Approving
  /\ aiVerificationJobs[advice.jobId].status = "verified"
  /\ \E k \in DOMAIN gisSnapshots : gisSnapshots[k].projectId = advice.projectId
  /\ projectRows[advice.projectId].status = "pending"
  /\ projectRows[advice.projectId].verifiedBy = Null
  /\ Len(auditLogs) = 1 /\ auditLogs[1].action = "submitted"

\* C30: job results are stable: a step changes no job row that is 'verified'
\* or 'suspicious', and changes no row but the one the call being handled
\* created
C30_CompletedJobsStable ==
  [][\A k \in DOMAIN aiVerificationJobs :
       /\ aiVerificationJobs[k].status \in {"verified", "suspicious"}
          => aiVerificationJobs'[k] = aiVerificationJobs[k]
       /\ aiVerificationJobs'[k] # aiVerificationJobs[k] => k = advice.jobId]_allVars

============================================================================
